---- MODULE Spec2Model ----
(***************************************************************************)
(* MASTER_PIPELINE.py, STEP 1 (data integration) and STEP 2 (data          *)
(* cleaning), as a state machine: one action per stage of the script, the  *)
(* five source files as tables that the run never changes.                 *)
(*                                                                         *)
(* A table (DataFrame) is a sequence of records, one record per row, in    *)
(* row order.  A float cell is an extended rational <<n, d>>: d > 0 is the *)
(* number n/d in lowest terms, <<0,0>> is NaN, <<1,0>> is +inf and         *)
(* <<-1,0>> is -inf.  A country name is the sequence of its characters;    *)
(* the other text cells are strings, NA the missing one.                   *)
(***************************************************************************)
EXTENDS Integers, Sequences, FiniteSets, TLC

VARIABLES
    pc,             \* the stage of the script that runs next
    df_ecom,        \* US_ECommerceTotal (1).csv as read (line 44)
    canada_src,     \* Canada_e-com-sales.csv: [status, rows]
    df_class,       \* CLASS_2025_10_07 (1).xlsx, "List of economies"
    df_internet,    \* share-of-individuals-using-the-internet.csv
    ged_src,        \* GEDEvent_v25_1.xlsx: [status, rows]
    unreadable,     \* the required sources whose file cannot be read
    fill_method,    \* pct_change's default fill of the installed pandas
    ecom_agg,       \* the e-commerce aggregate (lines 56, 108, 112)
    canada_yearly,  \* the monthly-derived yearly table (lines 96-104)
    master,         \* the panel being built (lines 136-260)
    before_count,   \* line 161
    removed_count,  \* the number printed on line 170
    log,            \* the skip/error messages printed so far
    emitted         \* master_panel.csv / analysis_ready.csv as written

vars == << pc, df_ecom, canada_src, df_class, df_internet, ged_src, unreadable,
           fill_method,
           ecom_agg, canada_yearly, master, before_count, removed_count, log,
           emitted >>

inputs == << df_ecom, canada_src, df_class, df_internet, ged_src, unreadable,
            fill_method >>

----------------------------------------------------------------------------
(* Floats *)

NaN == << 0, 0 >>
PosInf == << 1, 0 >>
NegInf == << -1, 0 >>

Abs(n) == IF n < 0 THEN -n ELSE n

Sign(n) == IF n > 0 THEN 1 ELSE IF n < 0 THEN -1 ELSE 0

RECURSIVE GCD(_, _)
GCD(a, b) == IF b = 0 THEN a ELSE GCD(b, a % b)

\* the float n/d; d = 0 gives the infinities and NaN
Norm(n, d) ==
    IF d = 0 THEN << Sign(n), 0 >>
    ELSE LET g == GCD(Abs(n), Abs(d))
             s == IF d < 0 THEN -1 ELSE 1
         IN  << (s * n) \div g, (s * d) \div g >>

R(n) == << n, 1 >>

IsNaN(x) == x = NaN

NotNa(x) == x # NaN

RAdd(x, y) ==
    IF x[2] = 0 /\ y[2] = 0
    THEN (IF x[1] = y[1] THEN x ELSE NaN)
    ELSE Norm(x[1] * y[2] + y[1] * x[2], x[2] * y[2])

RNeg(x) == << -x[1], x[2] >>

RSub(x, y) == RAdd(x, RNeg(y))

RMul(x, y) == Norm(x[1] * y[1], x[2] * y[2])

RDiv(x, y) ==
    LET recip == IF y[1] > 0 THEN << y[2], y[1] >>
                 ELSE IF y[1] < 0 THEN << -y[2], -y[1] >>
                 ELSE << y[2], 0 >>
    IN  RMul(x, Norm(recip[1], recip[2]))

\* x <= y on floats: false when either side is NaN
RLe(x, y) ==
    /\ NotNa(x) /\ NotNa(y)
    /\ IF x[2] = 0 /\ y[2] = 0 THEN x[1] <= y[1]
       ELSE IF x[2] = 0 THEN x[1] < 0
       ELSE IF y[2] = 0 THEN y[1] > 0
       ELSE x[1] * y[2] <= y[1] * x[2]

----------------------------------------------------------------------------
(* Sequences *)

RECURSIVE SelectRows(_, _)
\* the rows of table t for which keep[i] holds, in order (boolean indexing)
SelectRows(t, keep) ==
    IF t = << >> THEN << >>
    ELSE LET n == Len(t)
             front == SelectRows(SubSeq(t, 1, n - 1), keep)
         IN  IF keep[n] THEN Append(front, t[n]) ELSE front

RECURSIVE Flatten(_)
Flatten(ss) ==
    IF ss = << >> THEN << >> ELSE Head(ss) \o Flatten(Tail(ss))

RECURSIVE SumSkipNa(_)
\* pandas "sum": the NaN cells are skipped, an empty or all-NaN column sums to 0
SumSkipNa(vals) ==
    IF vals = << >> THEN R(0)
    ELSE LET rest == SumSkipNa(Tail(vals))
         IN  IF IsNaN(Head(vals)) THEN rest ELSE RAdd(Head(vals), rest)

RECURSIVE CountNotNa(_)
CountNotNa(vals) ==
    IF vals = << >> THEN 0
    ELSE (IF IsNaN(Head(vals)) THEN 0 ELSE 1) + CountNotNa(Tail(vals))

\* pandas "mean": over the non-NaN cells, NaN when there is none
MeanSkipNa(vals) ==
    IF CountNotNa(vals) = 0 THEN NaN
    ELSE RDiv(SumSkipNa(vals), R(CountNotNa(vals)))

----------------------------------------------------------------------------
(* Text *)

NA == "<NA>"

AsciiOrder ==
    << " ", "&", ",", "A", "B", "C", "D", "E", "F", "G", "H", "I", "J", "K", "L",
       "M", "N", "O", "P", "Q", "R", "S", "T", "U", "V", "W", "X", "Y", "Z",
       "a", "b", "c", "d", "e", "f", "g", "h", "i", "j", "k", "l", "m", "n", "o",
       "p", "q", "r", "s", "t", "u", "v", "w", "x", "y", "z" >>

Ord(c) == CHOOSE i \in DOMAIN AsciiOrder : AsciiOrder[i] = c

IsUpper(c) == Ord(c) \in Ord("A") .. Ord("Z")

LowerChar(c) == IF IsUpper(c) THEN AsciiOrder[Ord(c) - Ord("A") + Ord("a")] ELSE c

LowerStr(s) == [i \in DOMAIN s |-> LowerChar(s[i])]

RECURSIVE StrLess(_, _)
\* s < t on Python strings
StrLess(s, t) ==
    IF t = << >> THEN FALSE
    ELSE IF s = << >> THEN TRUE
    ELSE IF Head(s) # Head(t) THEN Ord(Head(s)) < Ord(Head(t))
    ELSE StrLess(Tail(s), Tail(t))

Contains(s, pat) ==
    \E i \in 1 .. (Len(s) - Len(pat) + 1) : SubSeq(s, i, i + Len(pat) - 1) = pat

\* str.contains('Hong Kong|Macao|SAR', case=False)
TerritoryPatterns ==
    { << "H", "o", "n", "g", " ", "K", "o", "n", "g" >>,
      << "M", "a", "c", "a", "o" >>,
      << "S", "A", "R" >> }

MatchesTerritory_CaseSensitive(name) ==
    \E pat \in TerritoryPatterns : Contains(name, pat)

MatchesTerritory(name) ==
    \E pat \in TerritoryPatterns : Contains(LowerStr(name), LowerStr(pat))

Canada == << "C", "a", "n", "a", "d", "a" >>
Malta == << "M", "a", "l", "t", "a" >>
Oman == << "O", "m", "a", "n" >>
Peru == << "P", "e", "r", "u" >>
Fiji == << "F", "i", "j", "i" >>
Testland == << "T", "e", "s", "t", "l", "a", "n", "d" >>
Chad == << "C", "h", "a", "d" >>
Togo == << "T", "o", "g", "o" >>
Mali == << "M", "a", "l", "i" >>
Sark == << "S", "a", "r", "k" >>
HongKongLower == << "h", "o", "n", "g", " ", "k", "o", "n", "g" >>
MacaoSAR == << "M", "a", "c", "a", "o", " ", "S", "A", "R", ",", " ", "C", "h", "i", "n", "a" >>

LatinAmerica == "Latin America & Caribbean"
EuropeCentralAsia == "Europe & Central Asia"
MiddleEast == "Middle East & North Africa"
EastAsia == "East Asia & Pacific"
NorthAmerica == "North America"

----------------------------------------------------------------------------
(* STEP 1: the global e-commerce aggregate, lines 47-65 *)

\* FilterTotal without the sale-type condition
FilterTotal_AnySaleType(df) ==
    SelectRows(df, [i \in DOMAIN df |->
        /\ df[i].Market = "Total"
        /\ df[i].EnterpriseSize = "All (persons employed)"])

\* lines 48-52
FilterTotal(df) ==
    SelectRows(df, [i \in DOMAIN df |->
        /\ df[i].Market = "Total"
        /\ df[i].EnterpriseSize = "All (persons employed)"
        /\ df[i].ECommerceSale = "Total"])

KeyLess(k1, k2) ==
    \/ StrLess(k1[1], k2[1])
    \/ k1[1] = k2[1] /\ k1[2] < k2[2]

RECURSIVE SortKeys(_)
\* the group keys in groupby's order (sort=True)
SortKeys(S) ==
    IF S = {} THEN << >>
    ELSE LET k == CHOOSE x \in S : \A y \in S \ {x} : KeyLess(x, y)
         IN  << k >> \o SortKeys(S \ {k})

Column(t, col) == [i \in DOMAIN t |-> t[i][col]]

\* lines 56-64: one row per (Economy Label, Year), sales summed, share averaged
EcomAgg(df) ==
    LET keys == SortKeys({ << df[i].Economy, df[i].Year >> : i \in DOMAIN df })
        grp(k) == SelectRows(df, [i \in DOMAIN df |->
                      << df[i].Economy, df[i].Year >> = k])
    IN  [j \in DOMAIN keys |->
            [country_name |-> keys[j][1],
             year |-> keys[j][2],
             ecom_sales_usd_millions |-> SumSkipNa(Column(grp(keys[j]), "Sales")),
             ecom_share_pct |-> MeanSkipNa(Column(grp(keys[j]), "Share"))]]

GlobalAgg(df) == EcomAgg(FilterTotal(df))

----------------------------------------------------------------------------
(* STEP 1: the Canada override, lines 69-120 *)

EcomLabel == "Retail E-commerce sales, unadjusted"
TotalLabel == "Retail trade, unadjusted [44-453]"

\* line 73: pd.to_datetime raises on a REF_DATE that is no date
DateParses(d) == d[2] \in 1 .. 12

DatesParse(raw) == \A i \in DOMAIN raw : DateParses(raw[i].REF_DATE)

\* lines 73-87: one series of the file, as (year, month, value) rows
CanadaSeries(raw, label) ==
    LET rows == SelectRows(raw, [i \in DOMAIN raw |-> raw[i].Sales = label])
    IN  [i \in DOMAIN rows |->
            [year |-> rows[i].REF_DATE[1],
             month |-> rows[i].REF_DATE[2],
             value |-> rows[i].VALUE]]

\* lines 90-93: inner join of the two series on (year, month), monthly share
CanadaMonthly(raw) ==
    LET ecom == CanadaSeries(raw, EcomLabel)
        total == CanadaSeries(raw, TotalLabel)
        matches(e) == SelectRows(total, [j \in DOMAIN total |->
                          total[j].year = e.year /\ total[j].month = e.month])
        joined(e) == [j \in DOMAIN matches(e) |->
                        [year |-> e.year,
                         month |-> e.month,
                         ecom_sales_thousands |-> e.value,
                         total_sales_thousands |-> matches(e)[j].value,
                         ecom_share_pct |->
                             RMul(RDiv(e.value, matches(e)[j].value), R(100))]]
    IN  Flatten([i \in DOMAIN ecom |-> joined(ecom[i])])

RECURSIVE SortInts(_)
SortInts(S) ==
    IF S = {} THEN << >>
    ELSE LET k == CHOOSE x \in S : \A y \in S : x <= y
         IN  << k >> \o SortInts(S \ {k})

\* lines 96-104: one row per year, sales summed and turned into millions
CanadaYearly(monthly) ==
    LET years == SortInts({ monthly[i].year : i \in DOMAIN monthly })
        grp(y) == SelectRows(monthly, [i \in DOMAIN monthly |-> monthly[i].year = y])
    IN  [j \in DOMAIN years |->
            [country_name |-> Canada,
             year |-> years[j],
             ecom_sales_usd_millions |->
                 RDiv(SumSkipNa(Column(grp(years[j]), "ecom_sales_thousands")), R(1000)),
             ecom_share_pct |-> MeanSkipNa(Column(grp(years[j]), "ecom_share_pct"))]]

\* DeleteOverlap without the year condition
DeleteOverlap_AllYears(agg, yearly) ==
    SelectRows(agg, [i \in DOMAIN agg |-> agg[i].country_name # Canada])

\* lines 107-109: the global rows of Canada for the override's years go
DeleteOverlap(agg, yearly) ==
    LET canada_years == { yearly[j].year : j \in DOMAIN yearly }
    IN  SelectRows(agg, [i \in DOMAIN agg |->
            ~ (agg[i].country_name = Canada /\ agg[i].year \in canada_years)])

\* lines 107-112: delete, then append the override rows
OverrideReplace(agg, yearly) == DeleteOverlap(agg, yearly) \o yearly

----------------------------------------------------------------------------
(* STEP 1: the merges and the filters, lines 123-182 *)

\* line 136: left merge on country_name
MergeClass(agg, cls) ==
    LET matches(r) == SelectRows(cls, [j \in DOMAIN cls |->
                          cls[j].country_name = r.country_name])
        with(r, c) == [country_name |-> r.country_name,
                       year |-> r.year,
                       ecom_sales_usd_millions |-> r.ecom_sales_usd_millions,
                       ecom_share_pct |-> r.ecom_share_pct,
                       iso3 |-> c.iso3,
                       region |-> c.region,
                       income_group |-> c.income_group]
        none == [iso3 |-> NA, region |-> NA, income_group |-> NA]
        joined(r) == IF matches(r) = << >> THEN << with(r, none) >>
                     ELSE [j \in DOMAIN matches(r) |-> with(r, matches(r)[j])]
    IN  Flatten([i \in DOMAIN agg |-> joined(agg[i])])

\* line 148: left merge on (iso3, year); a missing iso3 matches a missing iso3
MergeInternet(m, inet) ==
    LET matches(r) == SelectRows(inet, [j \in DOMAIN inet |->
                          inet[j].iso3 = r.iso3 /\ inet[j].year = r.year])
        with(r, v) == [country_name |-> r.country_name,
                       year |-> r.year,
                       ecom_sales_usd_millions |-> r.ecom_sales_usd_millions,
                       ecom_share_pct |-> r.ecom_share_pct,
                       iso3 |-> r.iso3,
                       region |-> r.region,
                       income_group |-> r.income_group,
                       internet_users_pct |-> v]
        joined(r) == IF matches(r) = << >> THEN << with(r, NaN) >>
                     ELSE [j \in DOMAIN matches(r) |->
                              with(r, matches(r)[j].internet_users_pct)]
    IN  Flatten([i \in DOMAIN m |-> joined(m[i])])

\* line 155: a missing region is not equal to the excluded one, so it stays
DropExcludedRegion(m) ==
    SelectRows(m, [i \in DOMAIN m |-> m[i].region # LatinAmerica])

\* line 162
DropUnclassified(m) ==
    SelectRows(m, [i \in DOMAIN m |-> m[i].region # NA])

\* line 165
DropTerritories(m) ==
    SelectRows(m, [i \in DOMAIN m |-> ~ MatchesTerritory(m[i].country_name)])

FixMalta_Skip(m) == m

FixMalta_AllRows(m) ==
    [i \in DOMAIN m |-> [m[i] EXCEPT !.region = EuropeCentralAsia]]

\* line 168
FixMalta(m) ==
    [i \in DOMAIN m |->
        IF m[i].country_name = Malta
        THEN [m[i] EXCEPT !.region = EuropeCentralAsia]
        ELSE m[i]]

\* line 176: groupby('country_name').size()
CountryYears(m, c) == Cardinality({ i \in DOMAIN m : m[i].country_name = c })

\* ValidCountries with "more than 2 years" for "at least 2 years"
ValidCountries_MoreThanTwo(m) ==
    { c \in { m[i].country_name : i \in DOMAIN m } : CountryYears(m, c) > 2 }

\* line 177
ValidCountries(m) ==
    { c \in { m[i].country_name : i \in DOMAIN m } : CountryYears(m, c) >= 2 }

\* line 178
MinCoverage(m) ==
    SelectRows(m, [i \in DOMAIN m |-> m[i].country_name \in ValidCountries(m)])

----------------------------------------------------------------------------
(* STEP 1: conflict data and shock indicators, lines 184-211 *)

\* lines 191-198: one row per (country, year), both death counts summed
ConflictAgg(ged) ==
    LET keys == SortKeys({ << ged[i].country, ged[i].year >> : i \in DOMAIN ged })
        grp(k) == SelectRows(ged, [i \in DOMAIN ged |->
                      << ged[i].country, ged[i].year >> = k])
    IN  [j \in DOMAIN keys |->
            [country_name |-> keys[j][1],
             year |-> keys[j][2],
             conflict_deaths |-> SumSkipNa(Column(grp(keys[j]), "best")),
             civilian_deaths |-> SumSkipNa(Column(grp(keys[j]), "deaths_civilians"))]]

FillNa0(x) == IF IsNaN(x) THEN R(0) ELSE x

WithDeaths(r, conflict, civilian) ==
    [x \in DOMAIN r \cup {"conflict_deaths", "civilian_deaths"} |->
        IF x = "conflict_deaths" THEN conflict
        ELSE IF x = "civilian_deaths" THEN civilian
        ELSE r[x]]

\* MergeConflict without the two fillna(0)
MergeConflict_NoFill(m, conflict_agg) ==
    LET matches(r) == SelectRows(conflict_agg, [j \in DOMAIN conflict_agg |->
                          /\ conflict_agg[j].country_name = r.country_name
                          /\ conflict_agg[j].year = r.year])
        joined(r) == IF matches(r) = << >> THEN << WithDeaths(r, NaN, NaN) >>
                     ELSE [j \in DOMAIN matches(r) |->
                              WithDeaths(r, matches(r)[j].conflict_deaths,
                                            matches(r)[j].civilian_deaths)]
    IN  Flatten([i \in DOMAIN m |-> joined(m[i])])

\* lines 200-202: left merge on (country_name, year), then fillna(0)
MergeConflict(m, conflict_agg) ==
    LET matches(r) == SelectRows(conflict_agg, [j \in DOMAIN conflict_agg |->
                          /\ conflict_agg[j].country_name = r.country_name
                          /\ conflict_agg[j].year = r.year])
        joined(r) == IF matches(r) = << >> THEN << WithDeaths(r, NaN, NaN) >>
                     ELSE [j \in DOMAIN matches(r) |->
                              WithDeaths(r, matches(r)[j].conflict_deaths,
                                            matches(r)[j].civilian_deaths)]
        merged == Flatten([i \in DOMAIN m |-> joined(m[i])])
    IN  [i \in DOMAIN merged |->
            [merged[i] EXCEPT !.conflict_deaths = FillNa0(@),
                              !.civilian_deaths = FillNa0(@)]]

\* lines 206-207: the except branch
ConflictSkipped(m) == [i \in DOMAIN m |-> WithDeaths(m[i], R(0), R(0))]

CovidFrom == 2020
CovidTo == 2022
UkraineFrom == 2022

AsInt(b) == IF b THEN 1 ELSE 0

\* the pandemic window without its last year
ShockFlags_CovidBefore2022(m) ==
    [i \in DOMAIN m |->
        [x \in DOMAIN m[i] \cup {"covid_19_shock", "ukraine_conflict"} |->
            IF x = "covid_19_shock"
            THEN AsInt(m[i].year >= CovidFrom /\ m[i].year < CovidTo)
            ELSE IF x = "ukraine_conflict" THEN AsInt(m[i].year >= UkraineFrom)
            ELSE m[i][x]]]

\* lines 210-211
ShockFlags(m) ==
    [i \in DOMAIN m |->
        [x \in DOMAIN m[i] \cup {"covid_19_shock", "ukraine_conflict"} |->
            IF x = "covid_19_shock"
            THEN AsInt(m[i].year >= CovidFrom /\ m[i].year <= CovidTo)
            ELSE IF x = "ukraine_conflict" THEN AsInt(m[i].year >= UkraineFrom)
            ELSE m[i][x]]]

----------------------------------------------------------------------------
(* STEP 2: growth rates, outliers, the period, lines 227-267 *)

RowLess(a, b) == KeyLess(<< a.country_name, a.year >>, << b.country_name, b.year >>)

RECURSIVE SortValues(_)
\* line 228: stable sort by (country_name, year)
SortValues(m) ==
    IF m = << >> THEN << >>
    ELSE LET n == Len(m)
             front == SortValues(SubSeq(m, 1, n - 1))
             k == Cardinality({ i \in DOMAIN front : ~ RowLess(m[n], front[i]) })
         IN  \* m[n] goes after the rows that are not greater than it
             SubSeq(front, 1, k) \o << m[n] >> \o SubSeq(front, k + 1, Len(front))

\* the position of the previous row of the same country, 0 when there is none
PrevInGroup(m, i) ==
    LET before == { j \in 1 .. (i - 1) : m[j].country_name = m[i].country_name }
    IN  IF before = {} THEN 0 ELSE CHOOSE j \in before : \A k \in before : k <= j

RECURSIVE Filled(_, _, _, _)
\* the cell pct_change works on: with "ffill" a NaN takes the last value of
\* the country before it
Filled(m, i, col, method) ==
    IF method = "ffill" /\ IsNaN(m[i][col]) /\ PrevInGroup(m, i) # 0
    THEN Filled(m, PrevInGroup(m, i), col, method)
    ELSE m[i][col]

\* pct_change() * 100 of one country's column, at row i
PctChange(m, i, col, method) ==
    IF PrevInGroup(m, i) = 0 THEN NaN
    ELSE RMul(RSub(RDiv(Filled(m, i, col, method),
                        Filled(m, PrevInGroup(m, i), col, method)), R(1)), R(100))

\* lines 228-230
Growth(m, method) ==
    LET sorted == SortValues(m)
    IN  [i \in DOMAIN sorted |->
            [x \in DOMAIN sorted[i] \cup {"ecom_sales_growth", "internet_growth"} |->
                IF x = "ecom_sales_growth"
                THEN PctChange(sorted, i, "ecom_sales_usd_millions", method)
                ELSE IF x = "internet_growth"
                THEN PctChange(sorted, i, "internet_users_pct", method)
                ELSE sorted[i][x]]]

RECURSIVE SortFloats(_)
SortFloats(vals) ==
    IF vals = << >> THEN << >>
    ELSE LET n == Len(vals)
             front == SortFloats(SubSeq(vals, 1, n - 1))
             k == Cardinality({ i \in DOMAIN front : RLe(front[i], vals[n]) })
         IN  SubSeq(front, 1, k) \o << vals[n] >> \o SubSeq(front, k + 1, Len(front))

\* numpy's linear interpolation between two neighbours
Lerp(a, b, g) ==
    IF 2 * g[1] < g[2]
    THEN RAdd(a, RMul(RSub(b, a), g))
    ELSE RSub(b, RMul(RSub(b, a), RSub(R(1), g)))

\* Series.quantile(num/4): over the non-NaN cells, interpolation "linear"
Quantile(vals, num) ==
    LET present == SortFloats(SelectRows(vals, [i \in DOMAIN vals |-> NotNa(vals[i])]))
        n == Len(present)
        lo == (num * (n - 1)) \div 4
        hi == IF lo + 1 < n THEN lo + 1 ELSE lo
        g == Norm((num * (n - 1)) % 4, 4)
    IN  IF n = 0 THEN NaN ELSE Lerp(present[lo + 1], present[hi + 1], g)

IqrFactor == 3

\* lines 236-240
LowerBound(vals) ==
    LET Q1 == Quantile(vals, 1)
        Q3 == Quantile(vals, 3)
    IN  RSub(Q1, RMul(R(IqrFactor), RSub(Q3, Q1)))

UpperBound_FromQ1(vals) ==
    LET Q1 == Quantile(vals, 1)
        Q3 == Quantile(vals, 3)
    IN  RAdd(Q1, RMul(R(IqrFactor), RSub(Q3, Q1)))

UpperBound(vals) ==
    LET Q1 == Quantile(vals, 1)
        Q3 == Quantile(vals, 3)
    IN  RAdd(Q3, RMul(R(IqrFactor), RSub(Q3, Q1)))

remove_extreme_outliers_Strict(df, column) ==
    LET vals == Column(df, column)
        lower == LowerBound(vals)
        upper == UpperBound(vals)
    IN  SelectRows(df, [i \in DOMAIN df |->
            \/ ~ RLe(vals[i], lower) /\ ~ RLe(upper, vals[i])
            \/ IsNaN(vals[i])])

\* lines 234-246
remove_extreme_outliers(df, column) ==
    LET vals == Column(df, column)
        lower == LowerBound(vals)
        upper == UpperBound(vals)
    IN  SelectRows(df, [i \in DOMAIN df |->
            \/ RLe(lower, vals[i]) /\ RLe(vals[i], upper)
            \/ IsNaN(vals[i])])

\* lines 252-254: the loop runs over ecom_sales_growth alone
RemoveOutliers(m) ==
    IF CountNotNa(Column(m, "ecom_sales_growth")) > 0
    THEN remove_extreme_outliers(m, "ecom_sales_growth")
    ELSE m

FirstYear == 2012

YearFilter_From2011(m) == SelectRows(m, [i \in DOMAIN m |-> m[i].year >= 2011])

\* line 260
YearFilter(m) == SelectRows(m, [i \in DOMAIN m |-> m[i].year >= FirstYear])

\* line 341: the rows the pipeline's own charts are drawn from
MasterViz(m) == SelectRows(m, [i \in DOMAIN m |-> m[i].year >= 2012])

\* cells that read_csv takes for missing values
NaTokens == { "", "NA", "N/A", "NULL", "null", "NaN", "nan", "n/a", "#N/A", "<NA>" }

\* to_csv writes a missing text cell as the empty string
CsvText(cell) == IF cell = NA THEN "" ELSE cell

\* read_csv turns the empty string and the other tokens into a missing cell
CsvParse(text) == IF text \in NaTokens THEN NA ELSE text

\* analysis_ready.csv as a reporting script reads it back
ReadCsv(rows) ==
    [i \in DOMAIN rows |->
        [rows[i] EXCEPT !.region = CsvParse(CsvText(@)),
                        !.income_group = CsvParse(CsvText(@))]]

\* the filters of the reporting scripts, after the load
ReporterFilter(df) ==
    LET kept == SelectRows(df, [i \in DOMAIN df |-> df[i].region # "Latin America & Caribbean"])
    IN  SelectRows(kept, [i \in DOMAIN kept |-> kept[i].year >= 2012])

----------------------------------------------------------------------------
(* The script, stage by stage *)

NotFoundMsg == "Canada dataset not found, skipping detailed data"
CanadaErrorMsg == "Error processing Canada data"
ConflictSkippedMsg == "Conflict data skipped"

\* lines 42-65; an unreadable file ends the script with a traceback
Aggregate ==
    /\ pc = "aggregate"
    /\ IF "ecom" \in unreadable
       THEN /\ pc' = "aborted"
            /\ UNCHANGED ecom_agg
       ELSE /\ ecom_agg' = GlobalAgg(df_ecom)
            /\ pc' = "canada"
    /\ UNCHANGED << inputs, canada_yearly, master, before_count, removed_count,
                    log, emitted >>

\* the rows of Canada are deleted before the dates are parsed
CanadaOverride_DeleteThenFail ==
    /\ pc = "canada"
    /\ pc' = "classify"
    /\ IF canada_src.status = "missing"
       THEN /\ log' = log \cup {NotFoundMsg}
            /\ UNCHANGED << ecom_agg, canada_yearly >>
       ELSE IF ~ DatesParse(canada_src.rows)
       THEN /\ log' = log \cup {CanadaErrorMsg}
            /\ ecom_agg' = DeleteOverlap_AllYears(ecom_agg, << >>)
            /\ UNCHANGED canada_yearly
       ELSE /\ canada_yearly' = CanadaYearly(CanadaMonthly(canada_src.rows))
            /\ ecom_agg' = OverrideReplace(ecom_agg, canada_yearly')
            /\ UNCHANGED log
    /\ UNCHANGED << inputs, master, before_count, removed_count, emitted >>

\* lines 68-120
CanadaOverride ==
    /\ pc = "canada"
    /\ pc' = "classify"
    /\ IF canada_src.status = "missing"
       THEN /\ log' = log \cup {NotFoundMsg}
            /\ UNCHANGED << ecom_agg, canada_yearly >>
       ELSE IF ~ DatesParse(canada_src.rows)
       THEN /\ log' = log \cup {CanadaErrorMsg}
            /\ UNCHANGED << ecom_agg, canada_yearly >>
       ELSE /\ canada_yearly' = CanadaYearly(CanadaMonthly(canada_src.rows))
            /\ ecom_agg' = OverrideReplace(ecom_agg, canada_yearly')
            /\ UNCHANGED log
    /\ UNCHANGED << inputs, master, before_count, removed_count, emitted >>

\* lines 123-137
Classify ==
    /\ pc = "classify"
    /\ IF "class" \in unreadable
       THEN /\ pc' = "aborted"
            /\ UNCHANGED master
       ELSE /\ master' = MergeClass(ecom_agg, df_class)
            /\ pc' = "internet"
    /\ UNCHANGED << inputs, ecom_agg, canada_yearly, before_count, removed_count,
                    log, emitted >>

\* an unreadable internet file counts as an empty one
Internet_Continue ==
    /\ pc = "internet"
    /\ master' = MergeInternet(master, IF "internet" \in unreadable
                                       THEN << >> ELSE df_internet)
    /\ pc' = "region"
    /\ UNCHANGED << inputs, ecom_agg, canada_yearly, before_count, removed_count,
                    log, emitted >>

\* lines 139-151
Internet ==
    /\ pc = "internet"
    /\ IF "internet" \in unreadable
       THEN /\ pc' = "aborted"
            /\ UNCHANGED master
       ELSE /\ master' = MergeInternet(master, df_internet)
            /\ pc' = "region"
    /\ UNCHANGED << inputs, ecom_agg, canada_yearly, before_count, removed_count,
                    log, emitted >>

\* lines 153-157
Region ==
    /\ pc = "region"
    /\ master' = DropExcludedRegion(master)
    /\ pc' = "unclassified"
    /\ UNCHANGED << inputs, ecom_agg, canada_yearly, before_count, removed_count,
                    log, emitted >>

\* lines 159-171
Unclassified ==
    /\ pc = "unclassified"
    /\ before_count' = Len(master)
    /\ master' = FixMalta(DropTerritories(DropUnclassified(master)))
    /\ removed_count' = before_count' - Len(master')
    /\ pc' = "coverage"
    /\ UNCHANGED << inputs, ecom_agg, canada_yearly, log, emitted >>

\* lines 173-182
Coverage ==
    /\ pc = "coverage"
    /\ master' = MinCoverage(master)
    /\ pc' = "conflict"
    /\ UNCHANGED << inputs, ecom_agg, canada_yearly, before_count, removed_count,
                    log, emitted >>

\* a failed conflict load ends the script
Conflict_Abort ==
    /\ pc = "conflict"
    /\ IF ged_src.status = "ok"
       THEN /\ master' = MergeConflict(master, ConflictAgg(ged_src.rows))
            /\ pc' = "shock"
       ELSE /\ UNCHANGED master
            /\ pc' = "aborted"
    /\ UNCHANGED << inputs, ecom_agg, canada_yearly, before_count, removed_count,
                    log, emitted >>

\* lines 184-207
Conflict ==
    /\ pc = "conflict"
    /\ IF ged_src.status = "ok"
       THEN /\ master' = MergeConflict(master, ConflictAgg(ged_src.rows))
            /\ UNCHANGED log
       ELSE /\ master' = ConflictSkipped(master)
            /\ log' = log \cup {ConflictSkippedMsg}
    /\ pc' = "shock"
    /\ UNCHANGED << inputs, ecom_agg, canada_yearly, before_count, removed_count,
                    emitted >>

\* lines 209-211
Shock ==
    /\ pc = "shock"
    /\ master' = ShockFlags(master)
    /\ pc' = "growth"
    /\ UNCHANGED << inputs, ecom_agg, canada_yearly, before_count, removed_count,
                    log, emitted >>

\* lines 227-230
GrowthRates ==
    /\ pc = "growth"
    /\ master' = Growth(master, fill_method)
    /\ pc' = "outliers"
    /\ UNCHANGED << inputs, ecom_agg, canada_yearly, before_count, removed_count,
                    log, emitted >>

\* lines 248-256
Outliers ==
    /\ pc = "outliers"
    /\ master' = RemoveOutliers(master)
    /\ pc' = "period"
    /\ UNCHANGED << inputs, ecom_agg, canada_yearly, before_count, removed_count,
                    log, emitted >>

\* lines 258-261
Period ==
    /\ pc = "period"
    /\ master' = YearFilter(master)
    /\ pc' = "save"
    /\ UNCHANGED << inputs, ecom_agg, canada_yearly, before_count, removed_count,
                    log, emitted >>

\* lines 263-267
Save ==
    /\ pc = "save"
    /\ emitted' = [written |-> TRUE, rows |-> master]
    /\ pc' = "done"
    /\ UNCHANGED << inputs, ecom_agg, canada_yearly, master, before_count,
                    removed_count, log >>

Next ==
    \/ Aggregate
    \/ CanadaOverride
    \/ Classify
    \/ Internet
    \/ Region
    \/ Unclassified
    \/ Coverage
    \/ Conflict
    \/ Shock
    \/ GrowthRates
    \/ Outliers
    \/ Period
    \/ Save

----------------------------------------------------------------------------
(* The source files *)

MaxEcomRows == 3
MaxMonthlyRows == 4
MaxClassRows == 3
MaxInternetRows == 2
MaxGedRows == 3
MaxYearRows == 3
MaxFreeCountries == 2

SeqsUpTo(S, n) == UNION { [1 .. k -> S] : k \in 0 .. n }

EcomRow(c, y, market, size, sale, sales, share) ==
    [Economy |-> c, Year |-> y, Market |-> market, EnterpriseSize |-> size,
     ECommerceSale |-> sale, Sales |-> sales, Share |-> share]

TotalRow(c, y, sales, share) ==
    EcomRow(c, y, "Total", "All (persons employed)", "Total", R(sales), R(share))

EcomRowChoices ==
    { TotalRow(Oman, 2019, 10, 2), TotalRow(Oman, 2019, 20, 3),
      TotalRow(Oman, 2019, 5, 1),
      EcomRow(Oman, 2019, "Total", "All (persons employed)", "Total", NaN, R(3)),
      EcomRow(Oman, 2019, "Total", "All (persons employed)", "Total", R(10), NaN),
      EcomRow(Oman, 2019, "Total", "All enterprises", "Total", R(10), R(2)),
      EcomRow(Oman, 2019, "Retail", "All (persons employed)", "Total", R(20), R(3)),
      TotalRow(Oman, 2020, 10, 2),
      EcomRow(Oman, 2020, "Total", "All (persons employed)", "Online", R(20), R(3)) }

DefaultEcom ==
    << TotalRow(Canada, 2018, 40, 4), TotalRow(Canada, 2019, 50, 5),
       TotalRow(Oman, 2019, 10, 2), TotalRow(Oman, 2020, 20, 3),
       TotalRow(Malta, 2019, 10, 2), TotalRow(Malta, 2020, 10, 2),
       TotalRow(MacaoSAR, 2019, 10, 2), TotalRow(MacaoSAR, 2020, 10, 2),
       TotalRow(Peru, 2019, 10, 2), TotalRow(Peru, 2020, 10, 2),
       TotalRow(Testland, 2019, 10, 2), TotalRow(Testland, 2020, 10, 2),
       TotalRow(Fiji, 2019, 10, 2) >>

YearRowChoices ==
    { TotalRow(Oman, 2011, 10, 2), TotalRow(Oman, 2012, 10, 2),
      TotalRow(Oman, 2013, 20, 2), TotalRow(Oman, 2022, 10, 2),
      TotalRow(Oman, 2023, 20, 2), TotalRow(Oman, 2024, 10, 2),
      TotalRow(Oman, 2025, 20, 2) }

MonthlyRow(y, m, label, value) ==
    [REF_DATE |-> << y, m >>, Sales |-> label, VALUE |-> R(value)]

MonthlyRowChoices ==
    { MonthlyRow(2020, 6, EcomLabel, 100), MonthlyRow(2020, 6, TotalLabel, 1000),
      MonthlyRow(2020, 12, EcomLabel, 300), MonthlyRow(2020, 12, TotalLabel, 1000),
      MonthlyRow(2019, 6, EcomLabel, 100), MonthlyRow(2019, 6, TotalLabel, 1000),
      MonthlyRow(2020, 13, EcomLabel, 100) }

DefaultCanada ==
    [status |-> "ok",
     rows |-> << MonthlyRow(2019, 6, EcomLabel, 100), MonthlyRow(2019, 6, TotalLabel, 1000),
                 MonthlyRow(2020, 6, EcomLabel, 100), MonthlyRow(2020, 6, TotalLabel, 1000) >>]

ClassRow(c, code, region, income) ==
    [country_name |-> c, iso3 |-> code, region |-> region, income_group |-> income]

ClassRowChoices ==
    { ClassRow(Oman, "OMN", MiddleEast, "High income"),
      ClassRow(Oman, "OMN", MiddleEast, NA),
      ClassRow(Oman, "OMN", NA, NA),
      ClassRow(Malta, "MLT", MiddleEast, "High income"),
      ClassRow(MacaoSAR, "MAC", EastAsia, "High income"),
      ClassRow(Peru, "PER", LatinAmerica, "Upper middle income"),
      ClassRow(Fiji, "FJI", EastAsia, "Upper middle income") }

DefaultClass ==
    << ClassRow(Canada, "CAN", NorthAmerica, "High income"),
       ClassRow(Oman, "OMN", MiddleEast, "High income"),
       ClassRow(Malta, "MLT", MiddleEast, "High income"),
       ClassRow(MacaoSAR, "MAC", EastAsia, "High income"),
       ClassRow(Peru, "PER", LatinAmerica, "Upper middle income"),
       ClassRow(Fiji, "FJI", EastAsia, "Upper middle income") >>

InternetRow(code, y, pct) == [iso3 |-> code, year |-> y, internet_users_pct |-> pct]

InternetRowChoices ==
    { InternetRow("OMN", 2019, R(80)), InternetRow("OMN", 2020, R(90)),
      InternetRow("OMN", 2019, R(85)), InternetRow("CAN", 2019, NaN),
      InternetRow(NA, 2019, R(50)) }

DefaultInternet ==
    << InternetRow("CAN", 2018, R(90)), InternetRow("CAN", 2019, R(92)),
       InternetRow("OMN", 2019, R(80)), InternetRow("OMN", 2020, R(90)),
       InternetRow("MLT", 2019, R(80)) >>

GedRow(c, y, best, civilians) ==
    [country |-> c, year |-> y, best |-> best, deaths_civilians |-> civilians]

GedRowChoices ==
    { GedRow(Oman, 2020, R(5), R(2)), GedRow(Oman, 2020, R(7), NaN),
      GedRow(Oman, 2019, R(1), R(1)), GedRow(Oman, 2021, R(3), R(3)),
      GedRow(Testland, 2020, R(9), R(9)) }

DefaultGed == [status |-> "ok", rows |-> << GedRow(Oman, 2020, R(5), R(2)) >>]

RequiredSources == { "ecom", "class", "internet" }

\* the state when line 42 is reached
Start ==
    /\ pc = "aggregate"
    /\ ecom_agg = << >>
    /\ canada_yearly = << >>
    /\ master = << >>
    /\ before_count = 0
    /\ removed_count = 0
    /\ log = {}
    /\ emitted = [written |-> FALSE, rows |-> << >>]

\* the primary source varies
InitEcom ==
    /\ df_ecom \in SeqsUpTo(EcomRowChoices, MaxEcomRows) \cup SeqsUpTo(YearRowChoices, MaxYearRows)
    /\ canada_src = [status |-> "missing", rows |-> << >>]
    /\ df_class = DefaultClass
    /\ df_internet = DefaultInternet
    /\ ged_src = DefaultGed
    /\ unreadable = {}
    /\ fill_method = "ffill"

\* the monthly source varies
InitCanada ==
    /\ df_ecom = DefaultEcom
    /\ canada_src \in { [status |-> st, rows |-> rows] :
                          st \in { "ok", "missing" },
                          rows \in SeqsUpTo(MonthlyRowChoices, MaxMonthlyRows) }
    /\ canada_src.status = "missing" => canada_src.rows = << >>
    /\ df_class = DefaultClass
    /\ df_internet = DefaultInternet
    /\ ged_src = DefaultGed
    /\ unreadable = {}
    /\ fill_method = "ffill"

\* the classification source varies
InitClass ==
    /\ df_ecom = DefaultEcom
    /\ canada_src = DefaultCanada
    /\ df_class \in SeqsUpTo(ClassRowChoices, MaxClassRows)
    /\ df_internet = DefaultInternet
    /\ ged_src = DefaultGed
    /\ unreadable = {}
    /\ fill_method = "ffill"

\* the internet source and the installed pandas vary
InitInternet ==
    /\ df_ecom = DefaultEcom
    /\ canada_src = DefaultCanada
    /\ df_class = DefaultClass
    /\ df_internet \in SeqsUpTo(InternetRowChoices, MaxInternetRows)
    /\ ged_src = DefaultGed
    /\ unreadable = {}
    /\ fill_method \in { "ffill", "none" }

\* the conflict source varies
InitGed ==
    /\ df_ecom = DefaultEcom
    /\ canada_src = DefaultCanada
    /\ df_class = DefaultClass
    /\ df_internet = DefaultInternet
    /\ ged_src \in { [status |-> st, rows |-> rows] :
                       st \in { "ok", "failed" },
                       rows \in SeqsUpTo(GedRowChoices, MaxGedRows) }
    /\ ged_src.status = "failed" => ged_src.rows = << >>
    /\ unreadable = {}
    /\ fill_method = "ffill"

\* countries of the growth panel, with their codes
GrowthCountries ==
    << [name |-> Oman, iso3 |-> "OMN"], [name |-> Fiji, iso3 |-> "FJI"],
       [name |-> Canada, iso3 |-> "CAN"], [name |-> Chad, iso3 |-> "TCD"],
       [name |-> Togo, iso3 |-> "TGO"], [name |-> Mali, iso3 |-> "MLI"],
       [name |-> Malta, iso3 |-> "MLT"] >>

\* every country sells 400 in its first year
\* sales of the second year of the first four countries: growth 1, 2, 3, 4 %
SteadySales == << 404, 408, 412, 416 >>

\* sales of the second year of the others: growth 5, 10, 12.25, 12.5, 1000,
\* -6.25 and -6.5 %
FreeSalesChoices == { 420, 440, 449, 450, 4400, 375, 374 }

GrowthEcom(sales) ==
    Flatten([k \in DOMAIN sales |->
                << TotalRow(GrowthCountries[k].name, 2019, 400, 2),
                   TotalRow(GrowthCountries[k].name, 2020, sales[k], 2) >>])

GrowthClass ==
    [k \in DOMAIN GrowthCountries |->
        ClassRow(GrowthCountries[k].name, GrowthCountries[k].iso3, MiddleEast, "High income")]

\* internet use grows by 2 % in the first four countries and ninetyfold in the
\* fifth; the others have no internet records
GrowthInternet ==
    Flatten([k \in 1 .. 5 |->
                << InternetRow(GrowthCountries[k].iso3, 2019, R(IF k = 5 THEN 1 ELSE 50)),
                   InternetRow(GrowthCountries[k].iso3, 2020, R(IF k = 5 THEN 90 ELSE 51)) >>])

\* the growth rates of the panel vary
InitGrowth ==
    /\ \E free \in SeqsUpTo(FreeSalesChoices, MaxFreeCountries) :
           df_ecom = GrowthEcom(SteadySales \o free)
    /\ canada_src = [status |-> "missing", rows |-> << >>]
    /\ df_class = GrowthClass
    /\ df_internet = GrowthInternet
    /\ ged_src = DefaultGed
    /\ unreadable = {}
    /\ fill_method = "ffill"

\* names that match the territory pattern in another letter case, and regions
\* that the filters exclude
TerritoryEcom ==
    << TotalRow(Sark, 2019, 10, 2), TotalRow(Sark, 2020, 10, 2),
       TotalRow(HongKongLower, 2019, 10, 2), TotalRow(HongKongLower, 2020, 10, 2),
       TotalRow(Peru, 2019, 10, 2), TotalRow(Peru, 2020, 10, 2),
       TotalRow(Malta, 2019, 10, 2), TotalRow(Malta, 2020, 10, 2),
       TotalRow(Oman, 2019, 10, 2), TotalRow(Oman, 2020, 10, 2) >>

TerritoryClassChoices ==
    { ClassRow(Sark, "SRK", EuropeCentralAsia, "High income"),
      ClassRow(HongKongLower, "HKG", EastAsia, "High income"),
      ClassRow(Peru, "PER", LatinAmerica, "Upper middle income"),
      ClassRow(Malta, "MLT", LatinAmerica, "High income"),
      ClassRow(Malta, "MLT", EastAsia, "High income"),
      ClassRow(Oman, "OMN", MiddleEast, "High income") }

InitTerritory ==
    /\ df_ecom = TerritoryEcom
    /\ canada_src = [status |-> "missing", rows |-> << >>]
    /\ df_class \in SeqsUpTo(TerritoryClassChoices, MaxClassRows)
    /\ df_internet = DefaultInternet
    /\ ged_src = DefaultGed
    /\ unreadable = {}
    /\ fill_method = "ffill"

\* required files are missing
InitUnreadable ==
    /\ df_ecom = DefaultEcom
    /\ canada_src = DefaultCanada
    /\ df_class = DefaultClass
    /\ df_internet = DefaultInternet
    /\ ged_src = DefaultGed
    /\ unreadable \in SUBSET RequiredSources
    /\ fill_method = "ffill"

Init ==
    /\ Start
    /\ \/ InitEcom
       \/ InitCanada
       \/ InitClass
       \/ InitInternet
       \/ InitGed
       \/ InitGrowth
       \/ InitTerritory
       \/ InitUnreadable

Spec == Init /\ [][Next]_vars

----------------------------------------------------------------------------
(* The claims *)

Done == pc = "done"

Panel == emitted.rows

KeyOf(r) == << r.country_name, r.year >>

LastYear == 2024

\* C1: in the emitted panel no two rows share the same (country_name, year),
\* whatever the sources hold.
C1_UniqueKeys ==
    Done => \A i, j \in DOMAIN Panel : i # j => KeyOf(Panel[i]) # KeyOf(Panel[j])

\* C2: every row of the emitted panel has 2012 <= year <= 2024.
C2_YearInPeriod ==
    Done => \A i \in DOMAIN Panel : FirstYear <= Panel[i].year /\ Panel[i].year <= LastYear

\* C3: every (country_name, year) of the integrated panel is a key of the primary
\* e-commerce source, and carries at most one row.
C3_KeysFromPrimary ==
    pc = "growth" =>
        /\ \A i \in DOMAIN master :
               \E k \in DOMAIN df_ecom :
                   KeyOf(master[i]) = << df_ecom[k].Economy, df_ecom[k].Year >>
        /\ \A i, j \in DOMAIN master : i # j => KeyOf(master[i]) # KeyOf(master[j])

\* the rows of the primary source in the slice (Total, size, Total)
Slice(size) ==
    SelectRows(df_ecom, [i \in DOMAIN df_ecom |->
        /\ df_ecom[i].Market = "Total"
        /\ df_ecom[i].EnterpriseSize = size
        /\ df_ecom[i].ECommerceSale = "Total"])

\* the aggregate holds exactly one row per (country, year) of the slice, its
\* sales their sum and its share their mean, and no other row
AggregatesSlice(size) ==
    LET sel == Slice(size)
        keys == { << sel[i].Economy, sel[i].Year >> : i \in DOMAIN sel }
        of(k) == SelectRows(sel, [i \in DOMAIN sel |->
                     << sel[i].Economy, sel[i].Year >> = k])
    IN  /\ \A k \in keys :
               \E j \in DOMAIN ecom_agg :
                   /\ KeyOf(ecom_agg[j]) = k
                   /\ \A j2 \in DOMAIN ecom_agg : KeyOf(ecom_agg[j2]) = k => j2 = j
                   /\ ecom_agg[j].ecom_sales_usd_millions = SumSkipNa(Column(of(k), "Sales"))
                   /\ ecom_agg[j].ecom_share_pct = MeanSkipNa(Column(of(k), "Share"))
        /\ \A j \in DOMAIN ecom_agg : KeyOf(ecom_agg[j]) \in keys

\* C4 (as amended): for each (country, year), the primary-source rows with market
\* segment "Total", enterprise size "All (persons employed)" and sale type "Total"
\* are aggregated into exactly one row, sales summed and share averaged over the
\* non-null cells; rows of any other segment contribute nothing.
C4_TotalSliceAggregated ==
    pc = "canada" => AggregatesSlice("All (persons employed)")

\* C4 (as claimed): the aggregated slice is the one with enterprise size
\* "All enterprises".
C4_AllEnterprisesAggregated ==
    pc = "canada" => AggregatesSlice("All enterprises")

\* three rows of one (country, year) with sales 10, 20, 5 and shares 2, 3, 1
\* became the single row (35, 2.0)
C4_Witness ==
    /\ pc = "canada"
    /\ Len(Slice("All (persons employed)")) = 3
    /\ Len(ecom_agg) = 1
    /\ ecom_agg[1].ecom_sales_usd_millions = R(35)
    /\ ecom_agg[1].ecom_share_pct = R(2)

OverrideRan ==
    canada_src.status = "ok" /\ DatesParse(canada_src.rows)

MonthlyRecords(label, y, m) ==
    SelectRows(canada_src.rows, [i \in DOMAIN canada_src.rows |->
        /\ canada_src.rows[i].Sales = label
        /\ canada_src.rows[i].REF_DATE = << y, m >>])

\* both series have a record for the month
Contributes(y, m) ==
    MonthlyRecords(EcomLabel, y, m) # << >> /\ MonthlyRecords(TotalLabel, y, m) # << >>

ContributingMonths(y) == SortInts({ m \in 1 .. 12 : Contributes(y, m) })

MonthEcom(y, m) == MonthlyRecords(EcomLabel, y, m)[1].VALUE

MonthShare(y, m) ==
    RMul(RDiv(MonthEcom(y, m), MonthlyRecords(TotalLabel, y, m)[1].VALUE), R(100))

\* C5: a month contributes to the yearly figures iff both series have a record
\* for it, each contributing month exactly once with share = ecom / total x 100;
\* yearly sales is the sum of the contributing months' e-commerce sales / 1000,
\* yearly share the mean of their shares.
C5_MonthsContributeOnce ==
    (pc = "classify" /\ OverrideRan) =>
        LET years == { canada_src.rows[i].REF_DATE[1] : i \in DOMAIN canada_src.rows }
            months(y) == ContributingMonths(y)
        IN  /\ \A y \in years :
                   months(y) # << >> <=> \E j \in DOMAIN canada_yearly : canada_yearly[j].year = y
            /\ \A j \in DOMAIN canada_yearly :
                   LET y == canada_yearly[j].year
                   IN  /\ canada_yearly[j].ecom_sales_usd_millions =
                              RDiv(SumSkipNa([k \in DOMAIN months(y) |->
                                                 MonthEcom(y, months(y)[k])]), R(1000))
                       /\ canada_yearly[j].ecom_share_pct =
                              MeanSkipNa([k \in DOMAIN months(y) |->
                                             MonthShare(y, months(y)[k])])

Untouched(agg, years) ==
    SelectRows(agg, [i \in DOMAIN agg |->
        ~ (agg[i].country_name = Canada /\ agg[i].year \in years)])

\* C6: after the override step, every year of the monthly-derived yearly table
\* has exactly one row of the override country in the aggregate, the override's
\* own; the country's rows of other years and all rows of other countries are
\* those of the global aggregate.
C6_OverrideReplaces ==
    [][(pc = "canada" /\ OverrideRan) =>
        LET years == { canada_yearly'[j].year : j \in DOMAIN canada_yearly' }
        IN  /\ \A j \in DOMAIN canada_yearly' :
                   \E i \in DOMAIN ecom_agg' :
                       /\ ecom_agg'[i] = canada_yearly'[j]
                       /\ \A i2 \in DOMAIN ecom_agg' :
                              (/\ ecom_agg'[i2].country_name = Canada
                               /\ ecom_agg'[i2].year = canada_yearly'[j].year) => i2 = i
            /\ Untouched(ecom_agg', years) = Untouched(ecom_agg, years)]_vars

\* the override replaced a global row of its country and left another one
C6_Witness ==
    LET years == { canada_yearly[j].year : j \in DOMAIN canada_yearly }
        global == GlobalAgg(df_ecom)
    IN  /\ pc = "classify"
        /\ OverrideRan
        /\ \E i \in DOMAIN global : global[i].country_name = Canada /\ global[i].year \in years
        /\ \E i \in DOMAIN ecom_agg :
               ecom_agg[i].country_name = Canada /\ ecom_agg[i].year \notin years
        /\ \E i \in DOMAIN ecom_agg : ecom_agg[i].country_name # Canada

Classified(c) == \E k \in DOMAIN df_class : df_class[k].country_name = c

\* C7: a country of the e-commerce source with no match in the classification
\* source has no row in the emitted panel, and the number of rows reported as
\* dropped for lack of classification is the number of rows dropped for it.
C7_UnclassifiedDroppedAndCounted ==
    /\ [](Done => \A k \in DOMAIN df_ecom :
                      ~ Classified(df_ecom[k].Economy) =>
                          \A i \in DOMAIN Panel :
                              Panel[i].country_name # df_ecom[k].Economy)
    /\ [][pc = "unclassified" =>
              removed_count' =
                  Cardinality({ i \in DOMAIN master : master[i].region = NA })]_vars

\* C8: every row of the emitted panel has a non-null region and a non-null
\* income_group.
C8_RegionAndIncomeNotNull ==
    Done => \A i \in DOMAIN Panel : Panel[i].region # NA /\ Panel[i].income_group # NA

RowsOf(m, c) == SelectRows(m, [i \in DOMAIN m |-> m[i].country_name = c])

\* C9: the minimum-coverage filter removes every row of a country that has fewer
\* than 2 rows and keeps every row of a country that has 2 or more.
C9_MinCoverage ==
    [][pc = "coverage" =>
          \A c \in { master[i].country_name : i \in DOMAIN master } :
              IF Len(RowsOf(master, c)) < 2
              THEN RowsOf(master', c) = << >>
              ELSE RowsOf(master', c) = RowsOf(master, c)]_vars

\* a classified country with a single year was removed, one with two was kept
C9_Witness ==
    /\ pc = "conflict"
    /\ Len(RowsOf(ecom_agg, Fiji)) = 1
    /\ Len(SelectRows(df_class, [k \in DOMAIN df_class |->
           df_class[k].country_name = Fiji /\ df_class[k].region # NA])) = 1
    /\ RowsOf(master, Fiji) = << >>
    /\ Len(RowsOf(master, Oman)) = 2

Events(c, y) ==
    SelectRows(ged_src.rows, [k \in DOMAIN ged_src.rows |->
        ged_src.rows[k].country = c /\ ged_src.rows[k].year = y])

\* C10: every row of the emitted panel has non-null conflict_deaths and
\* civilian_deaths, the sums over the conflict events of its (country, year);
\* 0 when no event matches or the conflict source could not be loaded.
C10_ConflictDeaths ==
    Done => \A i \in DOMAIN Panel :
        LET ev == Events(Panel[i].country_name, Panel[i].year)
        IN  /\ NotNa(Panel[i].conflict_deaths)
            /\ NotNa(Panel[i].civilian_deaths)
            /\ Panel[i].conflict_deaths =
                   IF ged_src.status = "ok" THEN SumSkipNa(Column(ev, "best")) ELSE R(0)
            /\ Panel[i].civilian_deaths =
                   IF ged_src.status = "ok" THEN SumSkipNa(Column(ev, "deaths_civilians"))
                   ELSE R(0)

\* two events of one (country, year) were summed, and a row without events got 0
C10_Witness ==
    /\ Done
    /\ ged_src.status = "ok"
    /\ \E i \in DOMAIN Panel :
           /\ Len(Events(Panel[i].country_name, Panel[i].year)) = 2
           /\ Panel[i].conflict_deaths = R(12)
    /\ \E i \in DOMAIN Panel :
           /\ Events(Panel[i].country_name, Panel[i].year) = << >>
           /\ Panel[i].conflict_deaths = R(0)
           /\ Panel[i].civilian_deaths = R(0)

\* C11: in the series the growth computation produces, each growth column of a
\* row of year t is null iff the series has no row for (country, t-1); a row
\* whose previous row is more than one year earlier has null growth.
C11_GrowthNullIffNoPreviousYear ==
    pc = "outliers" =>
        \A i \in DOMAIN master :
            LET hasPrev == \E j \in DOMAIN master :
                               /\ master[j].country_name = master[i].country_name
                               /\ master[j].year = master[i].year - 1
            IN  /\ IsNaN(master[i].ecom_sales_growth) <=> ~ hasPrev
                /\ IsNaN(master[i].internet_growth) <=> ~ hasPrev

\* C12: in the emitted panel the row of each country's smallest year has null
\* ecom_sales_growth and null internet_growth.
C12_FirstYearGrowthNull ==
    Done => \A i \in DOMAIN Panel :
        (\A j \in DOMAIN Panel :
             Panel[j].country_name = Panel[i].country_name =>
                 Panel[i].year <= Panel[j].year)
        => IsNaN(Panel[i].ecom_sales_growth) /\ IsNaN(Panel[i].internet_growth)

EcomGrowth(m) == Column(m, "ecom_sales_growth")

Iqr(vals) == RSub(Quantile(vals, 3), Quantile(vals, 1))

\* a null value, or one between Q1 - 3 IQR and (quartile "upperFrom") + 3 IQR
WithinFences(v, vals, upperFrom) ==
    \/ IsNaN(v)
    \/ /\ RLe(RSub(Quantile(vals, 1), RMul(R(3), Iqr(vals))), v)
       /\ RLe(v, RAdd(Quantile(vals, upperFrom), RMul(R(3), Iqr(vals))))

OutlierStepKeeps(upperFrom) ==
    pc = "outliers" =>
        master' = SelectRows(master, [i \in DOMAIN master |->
                      WithinFences(EcomGrowth(master)[i], EcomGrowth(master), upperFrom)])

\* C13 (as amended): the outlier step keeps a row iff its ecom_sales_growth is
\* null or lies in [Q1 - 3 IQR, Q3 + 3 IQR], the quartiles being those of the
\* non-null values of the column.
C13_KeepsWithinQ3Fence == [][OutlierStepKeeps(3)]_vars

\* C13 (as written): the upper fence is Q1 + 3 IQR.
C13_KeepsWithinQ1Fence == [][OutlierStepKeeps(1)]_vars

\* the step has removed a row and kept one whose growth, 10 %, is above
\* Q1 + 3 IQR of some of the columns it occurs in
C13_Witness ==
    /\ pc = "period"
    /\ Len(master) < Len(df_ecom)
    /\ \E i \in DOMAIN master : master[i].ecom_sales_growth = R(10)

Present(vals) == SortFloats(SelectRows(vals, [i \in DOMAIN vals |-> NotNa(vals[i])]))

ExampleColumn == << R(1), R(2), R(3), R(4), R(5), R(1000) >>

\* C14: on the column 1, 2, 3, 4, 5, 1000 the outlier step removes 1000 and
\* keeps 1 to 5; a value equal to the lower or the upper bound is kept.
C14_ExampleAndInclusiveBounds ==
    [][pc = "outliers" =>
          /\ Present(EcomGrowth(master)) = ExampleColumn =>
                 Present(EcomGrowth(master')) = SubSeq(ExampleColumn, 1, 5)
          /\ \A i \in DOMAIN master :
                 EcomGrowth(master)[i] \in { LowerBound(EcomGrowth(master)),
                                             UpperBound(EcomGrowth(master)) }
                 => \E j \in DOMAIN master' : master'[j] = master[i]]_vars

\* the example column has been through the step: the row of growth 1000 %
\* (sales 400 to 4400) is gone, the five others are kept
C14_Witness ==
    /\ pc = "period"
    /\ \E k \in DOMAIN df_ecom : df_ecom[k].Sales = R(4400)
    /\ Present(EcomGrowth(master)) = SubSeq(ExampleColumn, 1, 5)
    /\ Len(master) = Len(df_ecom) - 1

\* the loop of the outlier step as the specification describes it
OutliersOfBothColumns(m) ==
    LET first == IF CountNotNa(Column(m, "ecom_sales_growth")) > 0
                 THEN remove_extreme_outliers(m, "ecom_sales_growth") ELSE m
    IN  IF CountNotNa(Column(first, "internet_growth")) > 0
        THEN remove_extreme_outliers(first, "internet_growth") ELSE first

\* C15: the outlier step removes a row iff its ecom_sales_growth or its
\* internet_growth lies outside the bounds of that column; the share columns
\* never cause a removal.
C15_BothGrowthColumnsFiltered ==
    [][pc = "outliers" => master' = OutliersOfBothColumns(master)]_vars

FilterStages == { "region", "unclassified", "coverage", "outliers", "period" }

ColumnStages == { "classify", "internet", "conflict", "shock", "growth" }

\* row r is row old, or (where the patch is allowed) old with Malta's region set
SameRow(r, old, patch) ==
    \/ r = old
    \/ /\ patch
       /\ old.country_name = Malta
       /\ r = [old EXCEPT !.region = EuropeCentralAsia]

RECURSIVE KeptFrom(_, _, _)
\* the rows of new are rows of old, in the order of old
KeptFrom(new, old, patch) ==
    IF new = << >> THEN TRUE
    ELSE IF old = << >> THEN FALSE
    ELSE IF SameRow(Head(new), Head(old), patch)
    THEN KeptFrom(Tail(new), Tail(old), patch)
    ELSE KeptFrom(new, Tail(old), patch)

\* the table a stage starts from
Prior == IF pc = "classify" THEN ecom_agg ELSE master

\* every row of new carries the fields of a row of old unchanged, and every
\* row of old is carried by a row of new
Extends(new, old) ==
    /\ \A j \in DOMAIN new : \E i \in DOMAIN old :
           \A x \in DOMAIN old[i] : new[j][x] = old[i][x]
    /\ \A i \in DOMAIN old : \E j \in DOMAIN new :
           \A x \in DOMAIN old[i] : new[j][x] = old[i][x]

FrameStep(patch) ==
    /\ pc \in FilterStages /\ pc' # "aborted" =>
           KeptFrom(master', master, patch /\ pc = "unclassified")
    /\ pc \in ColumnStages /\ pc' # "aborted" => Extends(master', Prior)

\* C16 (as amended): every filter stage keeps a row with all its fields
\* unchanged or drops it, except that the unclassified-rows stage sets the
\* region of Malta's rows; the merges, the conflict fill, the shock flags and
\* the growth rates add columns and leave the fields a row already has alone.
C16_RowsKeptWholeOrDropped == [][FrameStep(TRUE)]_vars

\* C16 (as written): no exception for Malta's region.
C16_NoFieldOverwritten == [][FrameStep(FALSE)]_vars

\* the unclassified-rows stage has dropped rows and patched Malta's region
C16_Witness ==
    /\ pc = "coverage"
    /\ Len(master) < before_count
    /\ \E i \in DOMAIN master :
           /\ master[i].country_name = Malta
           /\ master[i].region = EuropeCentralAsia
           /\ \E k \in DOMAIN df_class :
                  /\ df_class[k].country_name = Malta
                  /\ df_class[k].region = MiddleEast

Stages ==
    << "aggregate", "canada", "classify", "internet", "region", "unclassified",
       "coverage", "conflict", "shock", "growth", "outliers", "period", "save",
       "done" >>

StageOf(p) == CHOOSE k \in DOMAIN Stages : Stages[k] = p

\* the script has gone past stage p
Past(p) == pc \in { Stages[k] : k \in DOMAIN Stages } /\ StageOf(pc) > StageOf(p)

CanadaFailed == canada_src.status = "missing" \/ ~ DatesParse(canada_src.rows)

ConflictFailed == ged_src.status # "ok"

\* what holds in every state of a run whose optional sources fail
OptionalFailureState ==
    unreadable = {} /\ (CanadaFailed \/ ConflictFailed) =>
        /\ pc # "aborted"
        /\ Done => emitted.written /\ emitted.rows = master
        /\ CanadaFailed /\ Past("canada") =>
               /\ ecom_agg = GlobalAgg(df_ecom)
               /\ canada_yearly = << >>
               /\ log \cap { NotFoundMsg, CanadaErrorMsg } # {}
        /\ ConflictFailed /\ Past("conflict") =>
               /\ ConflictSkippedMsg \in log
               /\ \A i \in DOMAIN master :
                      /\ master[i].conflict_deaths = R(0)
                      /\ master[i].civilian_deaths = R(0)

\* each step of such a run leads to the stage that follows in the script
OptionalFailureStep ==
    unreadable = {} /\ (CanadaFailed \/ ConflictFailed) =>
        pc' = Stages[StageOf(pc) + 1]

\* C17: when the monthly source or the conflict source fails to load (and the
\* required sources are readable) the script does not abort: every stage is
\* followed by the next one until the panel is written; after a failed monthly
\* load the aggregate is the global one and a message is logged; after a
\* failed conflict load the conflict fields are zero in every row and a
\* message is logged.
C17_OptionalSourcesDoNotAbort ==
    [] OptionalFailureState /\ [][OptionalFailureStep]_vars

\* the panel has been written by a run that found no conflict file
C17_Witness ==
    /\ Done
    /\ emitted.written
    /\ emitted.rows # << >>
    /\ ConflictFailed
    /\ ConflictSkippedMsg \in log

\* the stage that loads a required source
LoadStage(source) ==
    IF source = "ecom" THEN "aggregate"
    ELSE IF source = "class" THEN "classify"
    ELSE "internet"

\* the first load of the run that fails
FailingStage ==
    CHOOSE k \in { StageOf(LoadStage(s)) : s \in unreadable } :
        \A s \in unreadable : k <= StageOf(LoadStage(s))

\* the script is at or before the failing load, or has stopped there; nothing
\* of a later stage exists
HaltedState ==
    unreadable # {} =>
        /\ pc = "aborted" \/ (pc # "done" /\ StageOf(pc) <= FailingStage)
        /\ ~ emitted.written
        /\ emitted.rows = << >>
        /\ FailingStage <= StageOf("classify") => master = << >>
        /\ FailingStage = StageOf("aggregate") => ecom_agg = << >>

\* the failing load stops the script, and a stopped script takes no step
HaltedStep ==
    unreadable # {} =>
        /\ pc # "aborted"
        /\ StageOf(pc) = FailingStage =>
               /\ pc' = "aborted"
               /\ UNCHANGED << ecom_agg, canada_yearly, master, log, emitted >>

\* C18: when the primary, the classification or the internet source is
\* unreadable the script halts at that load: no later stage runs and no panel
\* file is written.
C18_RequiredSourceHalts == [] HaltedState /\ [][HaltedStep]_vars

\* the script has stopped at the classification load, after the aggregation
C18_Witness ==
    /\ pc = "aborted"
    /\ "class" \in unreadable
    /\ "ecom" \notin unreadable
    /\ ecom_agg # << >>
    /\ master = << >>
    /\ ~ emitted.written

FlagsFollowYear(r) ==
    /\ r.covid_19_shock \in { 0, 1 }
    /\ r.ukraine_conflict \in { 0, 1 }
    /\ r.covid_19_shock = 1 <=> (2020 <= r.year /\ r.year <= 2022)
    /\ r.ukraine_conflict = 1 <=> r.year >= 2022

\* C20: in every row of the panel, from the stage that sets the flags to the
\* emitted file, covid_19_shock is set iff 2020 <= year <= 2022 and
\* ukraine_conflict is set iff year >= 2022.
C20_ShockFlagsFollowYear ==
    /\ Past("shock") => \A i \in DOMAIN master : FlagsFollowYear(master[i])
    /\ Done => \A i \in DOMAIN Panel : FlagsFollowYear(Panel[i])

\* the emitted panel holds a row of 2022 with both flags and a row of 2023
\* with the second flag alone
C20_Witness ==
    /\ Done
    /\ \E i \in DOMAIN Panel :
           Panel[i].year = 2022 /\ Panel[i].covid_19_shock = 1 /\ Panel[i].ukraine_conflict = 1
    /\ \E i \in DOMAIN Panel :
           Panel[i].year = 2023 /\ Panel[i].covid_19_shock = 0 /\ Panel[i].ukraine_conflict = 1

\* the three patterns, in lower case
LowerPatterns ==
    { << "h", "o", "n", "g", " ", "k", "o", "n", "g" >>,
      << "m", "a", "c", "a", "o" >>,
      << "s", "a", "r" >> }

\* C21: no row of the emitted panel has region "Latin America & Caribbean",
\* and none has a country name containing "Hong Kong", "Macao" or "SAR" in
\* any letter case.
C21_NoExcludedRegionNoTerritory ==
    Done => \A i \in DOMAIN Panel :
        /\ Panel[i].region # "Latin America & Caribbean"
        /\ \A pat \in LowerPatterns : ~ Contains(LowerStr(Panel[i].country_name), pat)

\* a panel has been emitted from a source that held a Latin American country
\* and a classified country whose name matches the pattern in lower case only
C21_Witness ==
    /\ Done
    /\ Panel # << >>
    /\ \E k \in DOMAIN df_class :
           df_class[k].country_name = Sark /\ df_class[k].region # NA
    /\ \E k \in DOMAIN df_class :
           df_class[k].country_name = Peru /\ df_class[k].region = LatinAmerica
    /\ \E k \in DOMAIN df_ecom : df_ecom[k].Economy = Sark
    /\ \E k \in DOMAIN df_ecom : df_ecom[k].Economy = Peru

\* C22: every row of the emitted panel of country "Malta" has region
\* "Europe & Central Asia"; every row of another country has a region the
\* classification source gives that country.
C22_MaltaRegionFixed ==
    Done => \A i \in DOMAIN Panel :
        IF Panel[i].country_name = Malta
        THEN Panel[i].region = "Europe & Central Asia"
        ELSE \E k \in DOMAIN df_class :
                 /\ df_class[k].country_name = Panel[i].country_name
                 /\ df_class[k].region = Panel[i].region

\* the panel holds Malta, classified elsewhere by the source, and another
\* country
C22_Witness ==
    /\ Done
    /\ \E i \in DOMAIN Panel :
           /\ Panel[i].country_name = Malta
           /\ Panel[i].region = EuropeCentralAsia
    /\ \E k \in DOMAIN df_class :
           df_class[k].country_name = Malta /\ df_class[k].region \in { MiddleEast, EastAsia }
    /\ \E i \in DOMAIN Panel : Panel[i].country_name # Malta

\* C23: every country of the emitted panel has at least 2 rows in it.
C23_TwoRowsPerCountry ==
    Done => \A i \in DOMAIN Panel : CountryYears(Panel, Panel[i].country_name) >= 2

\* after a failed override the aggregate is the global one
FailedOverrideState ==
    CanadaFailed /\ Past("canada") => ecom_agg = GlobalAgg(df_ecom)

\* the override stage either leaves the aggregate alone and logs the failure,
\* or replaces: a row that goes is a row of Canada whose year the appended
\* yearly rows cover
OverrideStep ==
    pc = "canada" =>
        /\ log' # log => ecom_agg' = ecom_agg
        /\ \A i \in DOMAIN ecom_agg :
               (\A j \in DOMAIN ecom_agg' : ecom_agg'[j] # ecom_agg[i]) =>
                   /\ ecom_agg[i].country_name = Canada
                   /\ log' = log
                   /\ \E k \in DOMAIN canada_yearly' :
                          /\ canada_yearly'[k].year = ecom_agg[i].year
                          /\ \E j \in DOMAIN ecom_agg' : ecom_agg'[j] = canada_yearly'[k]

\* C24: when the processing of the monthly override fails, the aggregate
\* passed on is exactly the global aggregate; no row of Canada is deleted
\* without its replacement being appended.
C24_FailedOverrideLeavesAggregate ==
    [] FailedOverrideState /\ [][OverrideStep]_vars

\* the monthly file had records of 2019 and a date that does not parse: the
\* global rows of Canada, 2019 included, are still in the aggregate
C24_Witness ==
    /\ pc = "classify"
    /\ CanadaErrorMsg \in log
    /\ \E k \in DOMAIN canada_src.rows : canada_src.rows[k].REF_DATE[1] = 2019
    /\ \E i \in DOMAIN ecom_agg :
           ecom_agg[i].country_name = Canada /\ ecom_agg[i].year = 2019
    /\ ecom_agg = GlobalAgg(df_ecom)

\* C25: the filters of the reporting scripts (region, then year >= 2012),
\* applied to the emitted panel as read back, remove no row and change no
\* field, and neither does the year filter of the pipeline's own charts.
C25_ReporterFiltersRemoveNothing ==
    Done =>
        /\ ReporterFilter(ReadCsv(Panel)) = Panel
        /\ MasterViz(master) = Panel

\* a panel has been emitted from a source that held a row of 2011; its rows
\* start at 2012
C25_Witness ==
    /\ Done
    /\ \E k \in DOMAIN df_ecom : df_ecom[k].Year = 2011
    /\ \E i \in DOMAIN Panel : Panel[i].year = 2012

====
